---- MODULE Spec2Model ----
(***************************************************************************)
(* Model of invoice_generator.py: the InvoiceGenerator object (its         *)
(* attribute dictionary self.__dict__, which _to_json rewrites in place),  *)
(* the HTTP round trip of download and the file it writes, and the CSV     *)
(* batch loop of __main__.                                                 *)
(*                                                                         *)
(* Python values are tagged records, one field set per Python type, so     *)
(* that a value of one type never equals a value of another:               *)
(*   None [none], str [str], int/float [num], bool [bool],                 *)
(*   datetime.date [year, month, day], list [list], dict [dict],           *)
(*   class instance [cls, attrs] (attrs is the instance's __dict__).       *)
(* JSON values are tagged the same way: [null], [string], [number],        *)
(* [boolean], [array], [object].                                           *)
(*                                                                         *)
(* Environment assumptions: the locale en_US.utf8 is installed, so that    *)
(* locale.setlocale succeeds and %b gives the English month names; the     *)
(* server answers every POST, with a PDF body on 200 and a JSON error body *)
(* otherwise; the output directory exists and is writable.                 *)
(***************************************************************************)
EXTENDS Integers, Sequences, FiniteSets, TLC

(***************************************************************************)
(* Bounds of the model.                                                    *)
(***************************************************************************)
\* The most entries (items plus custom fields) an invoice is given.
MaxEntries == 3
\* The most rows of transactions.csv.
MaxRows == 3

(***************************************************************************)
(* Python values.                                                          *)
(***************************************************************************)
None == [none |-> TRUE]
Str(s) == [str |-> s]
Num(n) == [num |-> n]
Bool(b) == [bool |-> b]
Date(y, m, d) == [year |-> y, month |-> m, day |-> d]
List(s) == [list |-> s]
Dict(f) == [dict |-> f]
Instance(c, f) == [cls |-> c, attrs |-> f]

IsStr(v) == DOMAIN v = {"str"}
IsNum(v) == DOMAIN v = {"num"}
IsBool(v) == DOMAIN v = {"bool"}
IsDate(v) == DOMAIN v = {"year", "month", "day"}
IsList(v) == DOMAIN v = {"list"}
IsDict(v) == DOMAIN v = {"dict"}
IsInstance(v) == DOMAIN v = {"cls", "attrs"}

\* An argument left out of a call, and the value the parameter then takes.
Omitted == [omitted |-> TRUE]
Arg(a, default) == IF a = Omitted THEN default ELSE a

EmptyDict == [k \in {} |-> None]
SetKey(f, k, v) == [x \in DOMAIN f \cup {k} |-> IF x = k THEN v ELSE f[x]]
\* Mutant of PopKey: the key is never removed.
PopKey_kept(f, k) == f
PopKey(f, k) == [x \in DOMAIN f \ {k} |-> f[x]]

\* Exceptions: a type and the fragments its message is made of.
NoError == [type |-> "", msg |-> <<>>]
Error(t, m) == [type |-> t, msg |-> m]
Contains(msg, fragment) == \E i \in 1..Len(msg) : msg[i] = fragment

(***************************************************************************)
(* Class attributes of InvoiceGenerator.                                   *)
(***************************************************************************)
URL == "https://invoice-generator.com"
LOCALE == "en_US.utf8"
TEMPLATE_PARAMETERS ==
  << "header", "to_title", "ship_to_title", "invoice_number_title",
     "date_title", "payment_terms_title", "due_date_title",
     "purchase_order_title", "quantity_header", "item_header",
     "unit_cost_header", "amount_header", "subtotal_title",
     "discounts_title", "tax_title", "shipping_title", "total_title",
     "amount_paid_title", "balance_title", "terms_title", "notes_title" >>
\* Python's `x in list`.
InList(x, l) == \E i \in 1..Len(l) : l[i] = x

(***************************************************************************)
(* date.strftime("%d %b %Y") under the en_US locale, and str(date).        *)
(***************************************************************************)
MonthAbbr ==
  << "Jan", "Feb", "Mar", "Apr", "May", "Jun",
     "Jul", "Aug", "Sep", "Oct", "Nov", "Dec" >>
Pad2(n) == IF n < 10 THEN "0" \o ToString(n) ELSE ToString(n)
strftime(d) ==
  Pad2(d.day) \o " " \o MonthAbbr[d.month] \o " " \o ToString(d.year)
isoformat(d) ==
  ToString(d.year) \o "-" \o Pad2(d.month) \o "-" \o Pad2(d.day)

(***************************************************************************)
(* InvoiceGenerator.__init__: the attribute dictionary of a new invoice.   *)
(***************************************************************************)
InvoiceGenerator(sender, to, date, due_date) ==
  [ logo |-> None, sender |-> sender, to |-> to, ship_to |-> None,
    number |-> None, currency |-> Str("USD"), custom_fields |-> List(<<>>),
    date |-> date, payment_terms |-> None, due_date |-> due_date,
    items |-> List(<<>>),
    fields |-> Dict([tax |-> Str("%"), discounts |-> Bool(FALSE),
                     shipping |-> Bool(FALSE)]),
    discounts |-> Num(0), tax |-> Num(0), shipping |-> Num(0),
    amount_paid |-> Num(0), notes |-> None, terms |-> None,
    template |-> Dict(EmptyDict) ]

Item(name, quantity, unit_cost, description) ==
  Instance("Item", [name |-> name, quantity |-> quantity,
                    unit_cost |-> unit_cost, description |-> description])
CustomField(name, value) ==
  Instance("CustomField", [name |-> name, value |-> value])

(***************************************************************************)
(* The builder methods.  Each takes the attribute dictionary and returns   *)
(* [dict, raised, value]: the dictionary afterwards, the exception raised  *)
(* (NoError if none) and the value returned.  self.x raises AttributeError *)
(* when the dictionary has no x (no class attribute stands in for it).     *)
(***************************************************************************)
Return(d, v) == [dict |-> d, raised |-> NoError, value |-> v]
Raise(d, e) == [dict |-> d, raised |-> e, value |-> None]
NoAttribute(name) == Error("AttributeError", <<name>>)

\* Mutant of add_item: the item is put in front (insert(0, ...)).
add_item_front(self, name, quantity, unit_cost, description) ==
  Return(
    SetKey(self, "items",
      List(<<Item(Arg(name, None), Arg(quantity, Num(0)),
                  Arg(unit_cost, Num(0)), Arg(description, None))>>
           \o self["items"].list)),
    None)

add_item(self, name, quantity, unit_cost, description) ==
  IF "items" \notin DOMAIN self THEN Raise(self, NoAttribute("items"))
  ELSE IF ~IsList(self["items"]) THEN Raise(self, NoAttribute("append"))
  ELSE Return(
    SetKey(self, "items",
      List(Append(self["items"].list,
        Item(Arg(name, None), Arg(quantity, Num(0)),
             Arg(unit_cost, Num(0)), Arg(description, None))))),
    None)

add_custom_field(self, name, value) ==
  IF "custom_fields" \notin DOMAIN self
  THEN Raise(self, NoAttribute("custom_fields"))
  ELSE IF ~IsList(self["custom_fields"])
  THEN Raise(self, NoAttribute("append"))
  ELSE Return(
    SetKey(self, "custom_fields",
      List(Append(self["custom_fields"].list,
        CustomField(Arg(name, None), Arg(value, None))))),
    None)

\* Mutant of set_template_text: the override is stored before the key is
\* checked.
set_template_text_stored_first(self, template_parameter, value) ==
  IF "template" \notin DOMAIN self
  THEN Raise(self, NoAttribute("template"))
  ELSE
    LET d == SetKey(self, "template",
               Dict(SetKey(self["template"].dict, template_parameter, value)))
    IN IF InList(template_parameter, TEMPLATE_PARAMETERS)
       THEN Return(d, None)
       ELSE Raise(d,
              Error("ValueError",
                << "The parameter ", template_parameter,
                   " is not a valid template parameter. See docs." >>))

set_template_text(self, template_parameter, value) ==
  IF InList(template_parameter, TEMPLATE_PARAMETERS)
  THEN IF "template" \notin DOMAIN self
       THEN Raise(self, NoAttribute("template"))
       ELSE Return(
         SetKey(self, "template",
           Dict(SetKey(self["template"].dict, template_parameter, value))),
         None)
  ELSE Raise(self,
         Error("ValueError",
           << "The parameter ", template_parameter,
              " is not a valid template parameter. See docs." >>))

\* Mutant of toggle_subtotal: an omitted argument keeps the stored value.
toggle_subtotal_merged(self, tax, discounts, shipping) ==
  Return(
    SetKey(self, "fields",
      Dict([tax |-> Arg(tax, self["fields"].dict["tax"]),
            discounts |-> Arg(discounts, self["fields"].dict["discounts"]),
            shipping |-> Arg(shipping, self["fields"].dict["shipping"])])),
    None)

toggle_subtotal(self, tax, discounts, shipping) ==
  Return(
    SetKey(self, "fields",
      Dict([tax |-> Arg(tax, Str("%")),
            discounts |-> Arg(discounts, Bool(FALSE)),
            shipping |-> Arg(shipping, Bool(FALSE))])),
    None)

(***************************************************************************)
(* json.dumps: the JSON value that the text returned by json.dumps         *)
(* denotes.  A date or a class instance is not JSON serializable           *)
(* (TypeError).                                                            *)
(***************************************************************************)
RECURSIVE Serializable(_)
Serializable(v) ==
  IF IsList(v) THEN \A i \in 1..Len(v.list) : Serializable(v.list[i])
  ELSE IF IsDict(v) THEN \A k \in DOMAIN v.dict : Serializable(v.dict[k])
  ELSE v = None \/ IsStr(v) \/ IsNum(v) \/ IsBool(v)

RECURSIVE json_dumps(_)
json_dumps(v) ==
  IF v = None THEN [null |-> TRUE]
  ELSE IF IsStr(v) THEN [string |-> v.str]
  ELSE IF IsNum(v) THEN [number |-> v.num]
  ELSE IF IsBool(v) THEN [boolean |-> v.bool]
  ELSE IF IsList(v)
       THEN [array |-> [i \in 1..Len(v.list) |-> json_dumps(v.list[i])]]
  ELSE [object |-> [k \in DOMAIN v.dict |-> json_dumps(v.dict[k])]]

(***************************************************************************)
(* InvoiceGenerator._to_json.  object_dict is self.__dict__ itself, so     *)
(* every assignment below is an assignment to the invoice, and an          *)
(* exception leaves the assignments made before it in place.               *)
(***************************************************************************)
\* for index, x in enumerate(l): l[index] = x.__dict__, up to the first
\* element that has no __dict__ (a dict, or any other non-instance).
FirstPlain(l) ==
  IF \E i \in 1..Len(l) : ~IsInstance(l[i])
  THEN CHOOSE i \in 1..Len(l) :
         ~IsInstance(l[i]) /\ \A j \in 1..(i - 1) : IsInstance(l[j])
  ELSE Len(l) + 1
Flatten(l) ==
  [i \in 1..Len(l) |-> IF i < FirstPlain(l) THEN Dict(l[i].attrs) ELSE l[i]]

\* for template_parameter, value in self.template.items():
\*     object_dict[template_parameter] = value
\* Mutant of MergeTemplate: a field the invoice already has is kept, and
\* only the first override is merged.
MergeTemplate_first(object_dict, template) ==
  IF template = EmptyDict THEN object_dict
  ELSE LET k == CHOOSE k \in DOMAIN template : TRUE
       IN SetKey(object_dict, k, template[k])
MergeTemplate(object_dict, template) ==
  [k \in DOMAIN object_dict \cup DOMAIN template |->
     IF k \in DOMAIN template THEN template[k] ELSE object_dict[k]]

\* lines 103-106
to_json_template(object_dict) ==
  IF "template" \notin DOMAIN object_dict
  THEN Raise(object_dict, NoAttribute("template"))
  ELSE IF ~IsDict(object_dict["template"])
  THEN Raise(object_dict, NoAttribute("items"))
  ELSE LET merged == MergeTemplate(object_dict, object_dict["template"].dict)
       IN IF "template" \notin DOMAIN merged
          THEN Raise(merged, Error("KeyError", <<"template">>))
          ELSE LET popped == PopKey(merged, "template")
               IN IF Serializable(Dict(popped))
                  THEN Return(popped, json_dumps(Dict(popped)))
                  ELSE Raise(popped,
                         Error("TypeError", <<"is not JSON serializable">>))

\* lines 99-102
to_json_lists(object_dict) ==
  IF ~IsList(object_dict["items"])
  THEN Raise(object_dict, NoAttribute("__dict__"))
  ELSE LET items == object_dict["items"].list
           d1 == SetKey(object_dict, "items", List(Flatten(items)))
       IN IF FirstPlain(items) <= Len(items)
          THEN Raise(d1, NoAttribute("__dict__"))
          ELSE IF ~IsList(d1["custom_fields"])
          THEN Raise(d1, NoAttribute("__dict__"))
          ELSE LET fields == d1["custom_fields"].list
                   d2 == SetKey(d1, "custom_fields", List(Flatten(fields)))
               IN IF FirstPlain(fields) <= Len(fields)
                  THEN Raise(d2, NoAttribute("__dict__"))
                  ELSE to_json_template(d2)

\* line 90: locale.setlocale(locale.LC_ALL, name) makes name the locale of
\* the process (the locale is installed).
setlocale(name) == name

\* lines 91-98; the caller's step makes line 90's change of the locale.
to_json(self) ==
  LET d1 == SetKey(self, "from",
              IF "sender" \in DOMAIN self THEN self["sender"] ELSE None)
  IN IF ~IsDate(d1["date"]) THEN Raise(d1, NoAttribute("strftime"))
     ELSE
       LET d2 == SetKey(d1, "date", Str(strftime(d1["date"])))
       IN IF d2["due_date"] # None /\ ~IsDate(d2["due_date"])
          THEN Raise(d2, NoAttribute("strftime"))
          ELSE
            LET d3 == IF d2["due_date"] # None
                      THEN SetKey(d2, "due_date",
                                  Str(strftime(d2["due_date"])))
                      ELSE d2
            IN IF "sender" \notin DOMAIN d3
               THEN Raise(d3, Error("KeyError", <<"sender">>))
               ELSE to_json_lists(PopKey(d3, "sender"))

(***************************************************************************)
(* InvoiceGenerator.download, in its two halves: up to the POST, and from  *)
(* the response on.  The request in flight is kept with the file_path of   *)
(* the download call waiting for it.  An HTTP response is                  *)
(* [status_code, content, json]: content is the body's bytes, json what    *)
(* response.json() parses them to.                                         *)
(***************************************************************************)
NoRequest == [none |-> TRUE]
Request(body, file_path) ==
  [url |-> URL, json |-> body, accept_language |-> LOCALE,
   file_path |-> file_path]

\* The text of a one-entry dict of strings inside an f-string, in fragments.
repr(d) ==
  LET k == CHOOSE k \in DOMAIN d.dict : TRUE
  IN << "{'", k, "': '", d.dict[k].str, "'}" >>

\* Mutant of download_response: the body is written whatever the status.
download_response_unchecked(fs, file_path, response) ==
  [files |-> SetKey(fs, file_path, response.content),
   wrote |-> TRUE,
   raised |->
     IF response.status_code = 200 THEN NoError
     ELSE Error("Exception",
            << "Invoice download request returned the following message:" >>
            \o repr(response.json)
            \o << " Response code = ", ToString(response.status_code),
                  " " >>)]
\* lines 132-137: [files, wrote, raised]; wrote tells whether the file was
\* opened for writing.
download_response(fs, file_path, response) ==
  IF response.status_code = 200
  THEN [files |-> SetKey(fs, file_path, response.content),
        wrote |-> TRUE,
        raised |-> NoError]
  ELSE [files |-> fs,
        wrote |-> FALSE,
        raised |->
          Error("Exception",
            << "Invoice download request returned the following message:" >>
            \o repr(response.json)
            \o << " Response code = ", ToString(response.status_code),
                  " " >>)]

(***************************************************************************)
(* State.                                                                  *)
(*   invoice  the invoice object's attribute dictionary (self.__dict__)    *)
(*   last     the last call made: [op, args, raised, value]                *)
(*   log      what the caller passed: the constructor's arguments (init),  *)
(*            the arguments of the add_item and add_custom_field calls in  *)
(*            call order, and for each template key the value of the last  *)
(*            set_template_text call that returned                         *)
(*   pc       where the program is: "idle" between the calls of a caller   *)
(*            driving one invoice; in the batch loop "loop", "posting"     *)
(*            (inside requests.post), "done" (input exhausted) or "raised" *)
(*            (an exception ended the run)                                 *)
(*   request  the HTTP request in flight, or NoRequest                     *)
(*   process_locale  the process's LC_ALL locale, which _to_json sets      *)
(*   files    the file system: path -> content                             *)
(*   reader   the rows of transactions.csv, as text                        *)
(*   i        the number of rows the batch loop has taken from the reader  *)
(*   posted   the rows whose invoice was POSTed, in order                  *)
(*   written  the files written so far: <<[row, path, content]>>           *)
(***************************************************************************)
VARIABLES invoice, last, log, pc, request, process_locale, files, reader, i,
          posted, written

vars ==
  <<invoice, last, log, pc, request, process_locale, files, reader, i,
    posted, written>>

Call(op, args, r) ==
  [op |-> op, args |-> args, raised |-> r.raised, value |-> r.value]
NoCall == [op |-> "", args |-> <<>>, raised |-> NoError, value |-> None]
NewLog(a) ==
  [init |-> a, add_item |-> <<>>, add_custom_field |-> <<>>,
   set_template_text |-> EmptyDict]

(***************************************************************************)
(* Inputs of the model.                                                    *)
(***************************************************************************)
ConstructorArgs ==
  { <<Str("EA2 Consulting"), Str("A"), Date(2024, 1, 5), None>>,
    <<Str("ACME"), Str("B"), Date(2024, 11, 30), Date(2024, 12, 31)>> }
ItemArgs ==
  { <<Str("Consultative services"), Num(1), Num(100), Str("hours")>>,
    <<Omitted, Omitted, Omitted, Omitted>> }
CustomFieldArgs == { <<Str("PO"), Str("77")>>, <<Omitted, Str("x")>> }
TemplateArgs ==
  { <<"header", Str("INVOICE")>>, <<"header", Str("FACTURA")>>,
    <<"notes_title", Str("Remarks")>>,
    <<"items", Str("Lines")>>, <<"Header", Str("INVOICE")>> }
ToggleArgs ==
  { <<Omitted, Omitted, Omitted>>, <<Str("$"), Bool(TRUE), Bool(TRUE)>> }

(***************************************************************************)
(* A caller driving one invoice object.                                    *)
(***************************************************************************)
Init ==
  /\ \E a \in ConstructorArgs :
       /\ invoice = InvoiceGenerator(a[1], a[2], a[3], a[4])
       /\ log = NewLog(a)
  /\ last = NoCall
  /\ pc = "idle"
  /\ request = NoRequest
  /\ process_locale = "C"
  /\ files = EmptyDict
  /\ reader = <<>>
  /\ i = 0
  /\ posted = <<>>
  /\ written = <<>>

Entries == Len(log.add_item) + Len(log.add_custom_field)

AddItem ==
  /\ pc = "idle"
  /\ Entries < MaxEntries
  /\ \E a \in ItemArgs :
       LET r == add_item(invoice, a[1], a[2], a[3], a[4])
       IN /\ invoice' = r.dict
          /\ last' = Call("add_item", a, r)
          /\ log' = [log EXCEPT !.add_item = Append(@, a)]
  /\ UNCHANGED <<pc, request, process_locale, files, reader, i, posted,
                 written>>

AddCustomField ==
  /\ pc = "idle"
  /\ Entries < MaxEntries
  /\ \E a \in CustomFieldArgs :
       LET r == add_custom_field(invoice, a[1], a[2])
       IN /\ invoice' = r.dict
          /\ last' = Call("add_custom_field", a, r)
          /\ log' = [log EXCEPT !.add_custom_field = Append(@, a)]
  /\ UNCHANGED <<pc, request, process_locale, files, reader, i, posted,
                 written>>

SetTemplateText ==
  /\ pc = "idle"
  /\ \E a \in TemplateArgs :
       LET r == set_template_text(invoice, a[1], a[2])
       IN /\ invoice' = r.dict
          /\ last' = Call("set_template_text", a, r)
          /\ log' = IF r.raised = NoError
                    THEN [log EXCEPT
                            !.set_template_text = SetKey(@, a[1], a[2])]
                    ELSE log
  /\ UNCHANGED <<pc, request, process_locale, files, reader, i, posted,
                 written>>

ToggleSubtotal ==
  /\ pc = "idle"
  /\ \E a \in ToggleArgs :
       LET r == toggle_subtotal(invoice, a[1], a[2], a[3])
       IN /\ invoice' = r.dict
          /\ last' = Call("toggle_subtotal", a, r)
  /\ UNCHANGED <<log, pc, request, process_locale, files, reader, i, posted,
                 written>>

ToJson ==
  /\ pc = "idle"
  /\ LET r == to_json(invoice)
     IN /\ invoice' = r.dict
        /\ last' = Call("_to_json", <<>>, r)
  /\ process_locale' = setlocale(LOCALE)
  /\ UNCHANGED <<log, pc, request, files, reader, i, posted, written>>

Next ==
  \/ AddItem
  \/ AddCustomField
  \/ SetTemplateText
  \/ ToggleSubtotal
  \/ ToJson

Spec == Init /\ [][Next]_vars

(***************************************************************************)
(* The batch script.  A row of transactions.csv is                         *)
(* [date, description, amount]; date and amount are text as csv.DictReader *)
(* yields it, a sequence of characters.                                    *)
(***************************************************************************)
Digits == {"0", "1", "2", "3", "4", "5", "6", "7", "8", "9"}
DigitValue(c) ==
  CASE c = "0" -> 0 [] c = "1" -> 1 [] c = "2" -> 2 [] c = "3" -> 3
    [] c = "4" -> 4 [] c = "5" -> 5 [] c = "6" -> 6 [] c = "7" -> 7
    [] c = "8" -> 8 [] c = "9" -> 9
IsNumeral(t) == Len(t) > 0 /\ \A k \in 1..Len(t) : t[k] \in Digits
RECURSIVE Numeral(_)
Numeral(t) ==
  IF t = <<>> THEN 0
  ELSE 10 * Numeral(SubSeq(t, 1, Len(t) - 1)) + DigitValue(t[Len(t)])

IsLeap(y) == (y % 4 = 0 /\ y % 100 # 0) \/ y % 400 = 0
DaysInMonth(y, m) ==
  IF m = 2 THEN (IF IsLeap(y) THEN 29 ELSE 28)
  ELSE IF m \in {4, 6, 9, 11} THEN 30 ELSE 31

\* datetime.strptime(text, "%m-%d-%Y").date(): [ok, date].  The month and
\* the day are one or two digits, the year four, and the day exists.
strptime(text) ==
  LET dashes == {k \in 1..Len(text) : text[k] = "-"}
      bad == [ok |-> FALSE, date |-> None]
  IN IF Cardinality(dashes) # 2 THEN bad
     ELSE
       LET p == CHOOSE k \in dashes : \A j \in dashes : k <= j
           q == CHOOSE k \in dashes : \A j \in dashes : k >= j
           mm == SubSeq(text, 1, p - 1)
           dd == SubSeq(text, p + 1, q - 1)
           yyyy == SubSeq(text, q + 1, Len(text))
       IN IF ~(/\ IsNumeral(mm) /\ Len(mm) <= 2
               /\ IsNumeral(dd) /\ Len(dd) <= 2
               /\ IsNumeral(yyyy) /\ Len(yyyy) = 4)
          THEN bad
          ELSE
            LET m == Numeral(mm)
                d == Numeral(dd)
                y == Numeral(yyyy)
            IN IF /\ m \in 1..12
                  /\ y >= 1
                  /\ d \in 1..DaysInMonth(y, m)
               THEN [ok |-> TRUE, date |-> Date(y, m, d)]
               ELSE bad

\* float(text), for text that is an integer numeral with an optional sign;
\* any other text of the model's inputs is not a number: [ok, num].
float(text) ==
  LET signed == Len(text) > 0 /\ text[1] \in {"-", "+"}
      body == IF signed THEN SubSeq(text, 2, Len(text)) ELSE text
  IN IF IsNumeral(body)
     THEN [ok |-> TRUE,
           num |-> Num(IF signed /\ text[1] = "-"
                       THEN 0 - Numeral(body) ELSE Numeral(body))]
     ELSE [ok |-> FALSE, num |-> None]

ParseError == Error("ValueError", <<"does not match format">>)
\* Mutant of clean: an amount that is not a number is taken as 0.
clean_lenient(record) ==
  LET d == strptime(record.date)
      a == float(record.amount)
  IN IF ~d.ok
     THEN [raised |-> ParseError, record |-> record]
     ELSE [raised |-> NoError,
           record |-> [date |-> d.date, description |-> record.description,
                       amount |-> IF a.ok THEN a.num ELSE Num(0)]]
\* clean(record): [raised, record]
clean(record) ==
  LET d == strptime(record.date)
      a == float(record.amount)
  IN IF ~d.ok \/ ~a.ok
     THEN [raised |-> ParseError, record |-> record]
     ELSE [raised |-> NoError,
           record |-> [date |-> d.date, description |-> record.description,
                       amount |-> a.num]]

\* Mutant of Skipped: a zero amount is skipped too.
Skipped_zero(row) == row.amount.num <= 0
\* line 191: if row[amount] < 0: continue
Skipped(row) == row.amount.num < 0

\* line 199: f"invoices/{row[date_key]}.pdf"
FilePath(row) == "invoices/" \o isoformat(row.date) \o ".pdf"

\* The service: it renders the posted invoice, or refuses it.  A body is
\* [pdf], the rendering of a posted invoice, or [text].
Pdf(json) == [pdf |-> json]
Responses(req) ==
  { [status_code |-> 200, content |-> Pdf(req.json), json |-> None],
    [status_code |-> 404,
     content |-> [text |-> "{\"error\": \"bad request\"}"],
     json |-> Dict([error |-> Str("bad request")])],
    [status_code |-> 500,
     content |-> [text |-> "{\"message\": \"internal\"}"],
     json |-> Dict([message |-> Str("internal")])] }

Row(d, desc, a) == [date |-> d, description |-> desc, amount |-> a]
Jan05 == <<"0", "1", "-", "0", "5", "-", "2", "0", "2", "4">>
Jan06 == <<"0", "1", "-", "0", "6", "-", "2", "0", "2", "4">>
IsoJan05 == <<"2", "0", "2", "4", "-", "0", "1", "-", "0", "5">>
CsvRows ==
  { Row(Jan05, "A", <<"1", "0", "0">>),
    Row(Jan06, "B", <<"-", "5", "0">>),
    Row(Jan05, "C", <<"0">>),
    Row(IsoJan05, "D", <<"1", "0", "0">>),
    Row(Jan06, "E", <<"a", "b", "c">>) }
RECURSIVE SeqsUpTo(_, _)
SeqsUpTo(S, n) ==
  IF n = 0 THEN {<<>>}
  ELSE LET shorter == SeqsUpTo(S, n - 1)
       IN shorter \cup {Append(t, x) : t \in shorter, x \in S}

BatchInit ==
  /\ reader \in SeqsUpTo(CsvRows, MaxRows)
  /\ i = 0
  /\ pc = "loop"
  /\ invoice = EmptyDict
  /\ log = NewLog(<<>>)
  /\ last = NoCall
  /\ request = NoRequest
  /\ process_locale = "C"
  /\ files = EmptyDict
  /\ posted = <<>>
  /\ written = <<>>

\* The reader is exhausted: the loop and the script end.
BatchEnd ==
  /\ pc = "loop"
  /\ i = Len(reader)
  /\ pc' = "done"
  /\ UNCHANGED <<invoice, last, log, request, process_locale, files, reader,
                 i, posted, written>>

\* map(clean, reader) yields its next row, and clean raises on it.
BatchParseError ==
  /\ pc = "loop"
  /\ i < Len(reader)
  /\ LET c == clean(reader[i + 1])
     IN /\ c.raised # NoError
        /\ last' = [op |-> "clean", args |-> <<i + 1>>,
                    raised |-> c.raised, value |-> None]
  /\ i' = i + 1
  /\ pc' = "raised"
  /\ UNCHANGED <<invoice, log, request, process_locale, files, reader,
                 posted, written>>

\* lines 190-192: the next row has a negative amount.
BatchSkip ==
  /\ pc = "loop"
  /\ i < Len(reader)
  /\ LET c == clean(reader[i + 1])
     IN /\ c.raised = NoError
        /\ Skipped(c.record)
        /\ last' = [op |-> "clean", args |-> <<i + 1>>,
                    raised |-> NoError, value |-> None]
  /\ i' = i + 1
  /\ UNCHANGED <<invoice, log, pc, request, process_locale, files, reader,
                 posted, written>>

\* lines 190-199 and 125-131: the next row gets an invoice, which download
\* serializes and posts.
BatchSubmit ==
  /\ pc = "loop"
  /\ i < Len(reader)
  /\ LET c == clean(reader[i + 1])
     IN /\ c.raised = NoError
        /\ ~Skipped(c.record)
        /\ LET row == c.record
               init == <<Str("EA2 Consulting"), Str(row.description),
                         row.date, None>>
               item == <<Str("Consultative services"), Num(1), row.amount,
                         Omitted>>
               new == InvoiceGenerator(init[1], init[2], init[3], init[4])
               added == add_item(new, item[1], item[2], item[3], item[4])
               r == to_json(added.dict)
           IN /\ invoice' = r.dict
              /\ log' = [NewLog(init) EXCEPT !.add_item = <<item>>]
              /\ IF r.raised = NoError
                 THEN /\ request' = Request(r.value, FilePath(row))
                      /\ posted' = Append(posted, i + 1)
                      /\ pc' = "posting"
                      /\ last' = Call("add_item", item, added)
                 ELSE /\ last' = Call("download", <<FilePath(row)>>, r)
                      /\ pc' = "raised"
                      /\ UNCHANGED <<request, posted>>
  /\ i' = i + 1
  /\ process_locale' = setlocale(LOCALE)
  /\ UNCHANGED <<files, reader, written>>

\* lines 132-137 and 200: the response arrives; download writes the file or
\* raises, and the loop sleeps and goes on.
BatchResponse ==
  /\ pc = "posting"
  /\ \E response \in Responses(request) :
       LET r == download_response(files, request.file_path, response)
       IN /\ files' = r.files
          /\ written' = IF r.wrote
                        THEN Append(written,
                               [row |-> i, path |-> request.file_path,
                                content |-> response.content])
                        ELSE written
          /\ last' = [op |-> "download",
                      args |-> <<request.file_path, response>>,
                      raised |-> r.raised, value |-> None]
          /\ pc' = IF r.raised = NoError THEN "loop" ELSE "raised"
  /\ request' = NoRequest
  /\ UNCHANGED <<invoice, log, process_locale, reader, i, posted>>

BatchNext ==
  \/ BatchEnd
  \/ BatchParseError
  \/ BatchSkip
  \/ BatchSubmit
  \/ BatchResponse

BatchSpec == BatchInit /\ [][BatchNext]_vars

(***************************************************************************)
(* Properties of the builder and the serializer (under Spec).              *)
(***************************************************************************)
Serialized(call) == call.op = "_to_json" /\ call.raised = NoError
OtherState ==
  <<pc, request, process_locale, files, reader, i, posted, written>>

\* The JSON a caller expects for an argument: a string or a number as
\* passed, the parameter's default when the argument was left out.
JsonOf(v) ==
  IF v = None THEN [null |-> TRUE]
  ELSE IF IsStr(v) THEN [string |-> v.str]
  ELSE IF IsNum(v) THEN [number |-> v.num]
  ELSE [boolean |-> v.bool]
JsonArg(a, default) == IF a = Omitted THEN default ELSE JsonOf(a)

\* C1: set_template_text with a key outside the 21-entry allow-list raises
\* ValueError naming the key and changes nothing; the keys of the stored
\* template mapping are always within the allow-list.
C1_InvalidTemplateKeyRejected ==
  /\ [](/\ Len(TEMPLATE_PARAMETERS) = 21
        /\ "template" \in DOMAIN invoice =>
             \A k \in DOMAIN invoice["template"].dict :
               InList(k, TEMPLATE_PARAMETERS))
  /\ [][(/\ last'.op = "set_template_text"
         /\ ~InList(last'.args[1], TEMPLATE_PARAMETERS))
        => /\ last'.raised.type = "ValueError"
           /\ Contains(last'.raised.msg, last'.args[1])
           /\ invoice' = invoice
           /\ log' = log
           /\ UNCHANGED OtherState]_vars

C1_Witness ==
  /\ last.op = "set_template_text"
  /\ last.raised.type = "ValueError"
  /\ last.args[1] = "items"
  /\ "template" \in DOMAIN invoice
  /\ DOMAIN invoice["template"].dict = {"header", "notes_title"}
  /\ Len(invoice["items"].list) > 0

\* C2: serializing succeeds, leaves the invoice's sender, date, due_date,
\* items, custom_fields and template as they were, and a second
\* serialization right after a first yields the same wire object.
C2_SerializationLeavesInvoiceUnmodified ==
  [][last'.op = "_to_json"
     => /\ last'.raised = NoError
        /\ \A k \in {"sender", "date", "due_date", "items", "custom_fields",
                     "template"} :
             k \in DOMAIN invoice' /\ invoice'[k] = invoice[k]
        /\ Serialized(last) => last'.value = last.value]_vars

\* C3: the wire object has no field "sender" and no field "template", and
\* has a field "from" holding the sender given to the constructor.
C3_SenderRenamedToFrom ==
  Serialized(last) =>
    LET wire == last.value.object
    IN /\ "sender" \notin DOMAIN wire
       /\ "template" \notin DOMAIN wire
       /\ "from" \in DOMAIN wire
       /\ wire["from"] = [string |-> log.init[1].str]

C3_Witness ==
  /\ Serialized(last)
  /\ log.init[1] = Str("ACME")
  /\ DOMAIN log.set_template_text # {}
  /\ Len(log.add_item) > 0

\* The plain objects a caller expects for one add_item call and for one
\* add_custom_field call.
ExpectedItem(a) ==
  [object |->
     [name |-> JsonArg(a[1], [null |-> TRUE]),
      quantity |-> JsonArg(a[2], [number |-> 0]),
      unit_cost |-> JsonArg(a[3], [number |-> 0]),
      description |-> JsonArg(a[4], [null |-> TRUE])]]
ExpectedCustomField(a) ==
  [object |->
     [name |-> JsonArg(a[1], [null |-> TRUE]),
      value |-> JsonArg(a[2], [null |-> TRUE])]]

\* C5: the wire object's "items" array has one plain object per add_item
\* call, in call order, with the name, quantity, unit_cost and description
\* of that call (the defaults None, 0, 0.0, None for arguments left out);
\* likewise "custom_fields" and the add_custom_field calls.
C5_ItemsInInsertionOrder ==
  Serialized(last) =>
    LET wire == last.value.object
    IN /\ "items" \in DOMAIN wire
       /\ wire["items"] =
            [array |-> [j \in 1..Len(log.add_item) |->
                          ExpectedItem(log.add_item[j])]]
       /\ "custom_fields" \in DOMAIN wire
       /\ wire["custom_fields"] =
            [array |-> [j \in 1..Len(log.add_custom_field) |->
                          ExpectedCustomField(log.add_custom_field[j])]]

C5_Witness ==
  /\ Serialized(last)
  /\ Len(log.add_item) = 2
  /\ log.add_item[1] # log.add_item[2]
  /\ Len(log.add_custom_field) = 1
  /\ DOMAIN log.set_template_text # {}

\* The attributes the serializer renames, formats, flattens or drops.
Reshaped == {"sender", "template", "date", "due_date", "items",
             "custom_fields"}
\* C6: every stored template override (k, v) is a top-level field k = v of
\* the wire object (v the latest value set for k), none is nested under
\* "template", and every other field of the invoice is in the wire object
\* with the invoice's own value.
C6_TemplateMergedAtTopLevel ==
  [][Serialized(last') =>
       LET wire == last'.value.object
           overrides == log.set_template_text
       IN /\ "template" \in DOMAIN invoice
          /\ DOMAIN invoice["template"].dict = DOMAIN overrides
          /\ \A k \in DOMAIN overrides :
               /\ k \in DOMAIN wire
               /\ wire[k] = [string |-> overrides[k].str]
               /\ k \notin DOMAIN invoice
               /\ k # "from"
          /\ "template" \notin DOMAIN wire
          /\ DOMAIN wire =
               ((DOMAIN invoice \ {"sender", "template"}) \cup {"from"})
                 \cup DOMAIN overrides
          /\ \A k \in DOMAIN invoice \ Reshaped :
               wire[k] = json_dumps(invoice[k])
          /\ wire["from"] = [string |-> invoice["sender"].str]
          /\ wire["date"] = [string |-> strftime(invoice["date"])]
          /\ Len(wire["items"].array) = Len(invoice["items"].list)
          /\ Len(wire["custom_fields"].array)
               = Len(invoice["custom_fields"].list)]_vars

C6_Witness ==
  /\ Serialized(last)
  /\ DOMAIN log.set_template_text = {"header", "notes_title"}
  /\ last.value.object["header"] = [string |-> "FACTURA"]
  /\ Len(log.add_item) > 0

\* C9: toggle_subtotal sets the display-toggle record to exactly the tax,
\* discounts and shipping passed ("%", False, False for those left out) and
\* changes nothing else.
C9_ToggleReplacesWholesale ==
  [][last'.op = "toggle_subtotal" =>
       /\ last'.raised = NoError
       /\ DOMAIN invoice' = DOMAIN invoice
       /\ invoice'["fields"] =
            Dict([tax |-> IF last'.args[1] = Omitted THEN Str("%")
                          ELSE last'.args[1],
                  discounts |-> IF last'.args[2] = Omitted THEN Bool(FALSE)
                                ELSE last'.args[2],
                  shipping |-> IF last'.args[3] = Omitted THEN Bool(FALSE)
                               ELSE last'.args[3]])
       /\ \A k \in DOMAIN invoice \ {"fields"} : invoice'[k] = invoice[k]
       /\ log' = log
       /\ UNCHANGED OtherState]_vars

C9_Witness ==
  /\ last.op = "toggle_subtotal"
  /\ last.args = <<Omitted, Omitted, Omitted>>
  /\ invoice["fields"].dict["tax"] = Str("%")
  /\ Len(log.add_item) > 0
  /\ Len(log.add_custom_field) > 0
  /\ DOMAIN log.set_template_text # {}

(***************************************************************************)
(* Properties of download and of the batch script (under BatchSpec).       *)
(***************************************************************************)
Rows == 1..Len(reader)
WellFormedRow(j) == strptime(reader[j].date).ok /\ float(reader[j].amount).ok
WellFormed == \A j \in Rows : WellFormedRow(j)
\* A qualifying record: well-formed, with amount >= 0.
Qualifies(j) == WellFormedRow(j) /\ float(reader[j].amount).num.num >= 0
QualifyingRows == SelectSeq([j \in Rows |-> j], Qualifies)
PathOf(j) ==
  LET d == strptime(reader[j].date).date
  IN "invoices/" \o ToString(d.year) \o "-" \o Pad2(d.month) \o "-"
       \o Pad2(d.day) \o ".pdf"
IsPrefix(s, t) == Len(s) <= Len(t) /\ s = SubSeq(t, 1, Len(s))
InSeq(x, t) == \E k \in 1..Len(t) : t[k] = x

\* C4: with status 200 and body B the file at file_path afterwards holds
\* exactly B, whatever it held, and no other file changes; with any other
\* status download raises an error whose message has the status code and
\* the parsed error body, and no file is created or changed.
C4_DownloadWritesOnlyOnSuccess ==
  [][(pc = "posting" /\ last'.op = "download") =>
       LET file_path == last'.args[1]
           response == last'.args[2]
       IN IF response.status_code = 200
          THEN /\ last'.raised = NoError
               /\ DOMAIN files' = DOMAIN files \cup {file_path}
               /\ files'[file_path] = response.content
               /\ \A p \in DOMAIN files \ {file_path} : files'[p] = files[p]
          ELSE /\ last'.raised.type = "Exception"
               /\ Contains(last'.raised.msg, ToString(response.status_code))
               /\ \A k \in DOMAIN response.json.dict :
                    /\ Contains(last'.raised.msg, k)
                    /\ Contains(last'.raised.msg, response.json.dict[k].str)
               /\ files' = files
               /\ written' = written]_vars

\* A file was replaced by a later download, and a failed download then left
\* it as it was.
C4_Witness ==
  /\ Len(written) = 2
  /\ written[1].path = written[2].path
  /\ written[1].content # written[2].content
  /\ last.op = "download"
  /\ last.raised.type = "Exception"
  /\ Contains(last.raised.msg, "404")
  /\ last.args[1] = written[2].path
  /\ files[last.args[1]] = written[2].content

\* C7 as stated: over well-formed records every record with amount >= 0 is
\* submitted exactly once and no record with amount < 0, in input order,
\* one submission at a time.
C7_EveryQualifyingRecordSubmitted ==
  WellFormed =>
    /\ IsPrefix(posted, QualifyingRows)
    /\ request # NoRequest => pc = "posting"
    /\ pc \in {"done", "raised"} => posted = QualifyingRows

\* C7 as amended: over well-formed records the submissions are the
\* qualifying records (amount >= 0) in input order, each at most once and
\* never a record with amount < 0; a submission starts only when none is in
\* flight; all qualifying records have been submitted when the batch runs
\* to its end, and a batch that stops early stopped at a failed submission,
\* the last one made.
C7_QualifyingRecordsSubmittedInOrder ==
  /\ [](WellFormed =>
          /\ IsPrefix(posted, QualifyingRows)
          /\ request # NoRequest =>
               /\ pc = "posting"
               /\ posted # <<>>
               /\ posted[Len(posted)] = i
          /\ pc = "done" => posted = QualifyingRows
          /\ pc = "raised" =>
               /\ last.op = "download"
               /\ last.raised.type = "Exception"
               /\ posted # <<>>
               /\ posted[Len(posted)] = i)
  /\ [][posted' # posted =>
          /\ request = NoRequest
          /\ request' # NoRequest
          /\ posted' = Append(posted, i')]_vars

C7_Witness ==
  /\ pc = "done"
  /\ WellFormed
  /\ Len(posted) = 2
  /\ Len(reader) = 3
  /\ ~Qualifies(2)

\* C8: when the batch ends with every submission answered 200, there are as
\* many files as qualifying records, and each qualifying record's PDF is at
\* the path derived from its date.
C8_OnePdfPerQualifyingRecord ==
  pc = "done" =>
    /\ Cardinality(DOMAIN files) = Len(QualifyingRows)
    /\ \A j \in Rows :
         Qualifies(j) =>
           /\ PathOf(j) \in DOMAIN files
           /\ \E k \in 1..Len(written) :
                /\ written[k].row = j
                /\ written[k].path = PathOf(j)
                /\ \A m \in (k + 1)..Len(written) :
                     written[m].path # PathOf(j)

\* Row j and the rows before it all parse.
AllBeforeWellFormed(j) == \A m \in 1..j : WellFormedRow(m)
\* C10: a row whose date or amount does not parse is never submitted and no
\* file is written for it, nor for any row after it; the batch does not end
\* normally over it; when the loop takes it, a ValueError ends the run, and
\* by then every qualifying row before it has been submitted and its file
\* written.
C10_MalformedRowStopsBatch ==
  /\ \A k \in 1..Len(posted) : AllBeforeWellFormed(posted[k])
  /\ \A k \in 1..Len(written) : AllBeforeWellFormed(written[k].row)
  /\ pc = "done" => WellFormed
  /\ (i >= 1 /\ ~WellFormedRow(i)) =>
       /\ pc = "raised"
       /\ last.op = "clean"
       /\ last.args = <<i>>
       /\ last.raised.type = "ValueError"
       /\ request = NoRequest
       /\ \A j \in 1..(i - 1) :
            Qualifies(j) =>
              /\ InSeq(j, posted)
              /\ \E k \in 1..Len(written) :
                   written[k].row = j /\ written[k].path = PathOf(j)

C10_Witness ==
  /\ pc = "raised"
  /\ last.op = "clean"
  /\ i = 2
  /\ Len(reader) = 3
  /\ Qualifies(3)
  /\ posted = <<1>>
  /\ Len(written) = 1

====
